---- MODULE Spec2Model ----
(***************************************************************************)
(* A model of create_render.py: the timeline synthesis of                  *)
(* create_video_json, the asset cache, the fit calculation and the render  *)
(* submission / polling client, as one run of create_and_render_video.     *)
(***************************************************************************)
EXTENDS Integers, Sequences, FiniteSets, TLC

\* ------------------------------------------------------------------ bounds

\* the largest number of supplementary assets of a run
MaxN == 6
\* the largest number of environment faults (failed downloads, unreadable
\* files) met by one run of create_and_render_video
MaxFaults == 1
\* the same for a run of create_video_json alone
MaxSynthFaults == 2

\* ------------------------------------------------- program constants

frame_width == 1080
frame_height == 1920
only_actor_time == 5000
max_attempts == 60

frame_center == <<frame_width \div 2, frame_height \div 2>>
full_frame_container_dimensions == <<frame_width, frame_height>>
upper_container_dimensions == <<frame_width, frame_height \div 2>>
lower_container_dimensions == <<frame_width, frame_height \div 2>>
upper_container_center == <<frame_width \div 2, frame_height \div 4>>
lower_container_center == <<frame_width \div 2, (frame_height \div 4) * 3>>

None == "None"
\* None where the value, when set, is a record
NoneRec == [none |-> TRUE]

\* ------------------------------------------- Python floats (IEEE doubles)
\* A double is a sign and a magnitude; the magnitude is a fixed-point binary
\* number kept as NLimbs limbs of LimbBits bits, most significant first, the
\* binary point after limb IntLimbs.  Every operation computes the exact
\* result and rounds it to MantBits significant bits, ties to even.

MantBits == 53
LimbBits == 15
IntLimbs == 2
FracLimbs == 4
NLimbs == IntLimbs + FracLimbs
Width == NLimbs * LimbBits

\* 2^k for k in 0..30
Pow2Table ==
    <<1, 2, 4, 8, 16, 32, 64, 128, 256, 512, 1024, 2048, 4096, 8192, 16384, 32768,
      65536, 131072, 262144, 524288, 1048576, 2097152, 4194304, 8388608, 16777216,
      33554432, 67108864, 134217728, 268435456, 536870912, 1073741824>>
Pow2(k) == Pow2Table[k + 1]

Base == Pow2(LimbBits)

Abs(i) == IF i < 0 THEN -i ELSE i

ZeroMag == [j \in 1..NLimbs |-> 0]

\* bit i (1 = most significant) of a magnitude
LimbOf(i) == ((i - 1) \div LimbBits) + 1
WeightOf(i) == Pow2(LimbBits - 1 - ((i - 1) % LimbBits))
Bit(m, i) == (m[LimbOf(i)] \div WeightOf(i)) % 2

IntToMag(k) ==
    [j \in 1..NLimbs |->
        IF j <= IntLimbs THEN (k \div Pow2(LimbBits * (IntLimbs - j))) % Base ELSE 0]

MagAdd(a, b) ==
    LET c[j \in 1..(NLimbs + 1)] ==
            IF j > NLimbs THEN 0 ELSE (a[j] + b[j] + c[j + 1]) \div Base
    IN  [j \in 1..NLimbs |-> (a[j] + b[j] + c[j + 1]) % Base]

\* a - b for magnitudes with a >= b
MagSub(a, b) ==
    LET br[j \in 1..(NLimbs + 1)] ==
            IF j > NLimbs THEN 0
            ELSE IF a[j] - b[j] - br[j + 1] < 0 THEN 1 ELSE 0
    IN  [j \in 1..NLimbs |-> (a[j] - b[j] - br[j + 1] + Base) % Base]

MagLess(a, b) ==
    \E j \in 1..NLimbs : a[j] < b[j] /\ \A k \in 1..(j - 1) : a[k] = b[k]

\* round a magnitude to MantBits significant bits, ties to even; sticky says
\* that the exact value has non-zero bits below the last limb
RoundMag(m, sticky) ==
    IF m = ZeroMag THEN m
    ELSE LET lead == CHOOSE j \in 1..NLimbs : m[j] # 0 /\ \A k \in 1..(j - 1) : m[k] = 0
             len == CHOOSE b \in 1..LimbBits : Pow2(b - 1) <= m[lead] /\ m[lead] < Pow2(b)
             p == LimbBits * lead - len + 1
             last == p + MantBits - 1
         IN  IF last >= Width THEN m
             ELSE LET kept == [j \in 1..NLimbs |->
                                  IF j < LimbOf(last) THEN m[j]
                                  ELSE IF j > LimbOf(last) THEN 0
                                  ELSE (m[j] \div WeightOf(last)) * WeightOf(last)]
                      ulp == [j \in 1..NLimbs |->
                                  IF j = LimbOf(last) THEN WeightOf(last) ELSE 0]
                      halfway == [j \in 1..NLimbs |->
                                  IF j = LimbOf(last + 1) THEN WeightOf(last + 1) ELSE 0]
                      dropped == MagSub(m, kept)
                  IN  IF MagLess(halfway, dropped)
                         \/ (dropped = halfway /\ (sticky \/ Bit(m, last) = 1))
                      THEN MagAdd(kept, ulp)
                      ELSE kept

MkDbl(neg, mag) == [neg |-> neg /\ mag # ZeroMag, mag |-> mag]

\* an int used where a float is: exact
FromInt(i) == MkDbl(i < 0, IntToMag(Abs(i)))

\* a + b
DblAdd(a, b) ==
    IF a.neg = b.neg THEN MkDbl(a.neg, RoundMag(MagAdd(a.mag, b.mag), FALSE))
    ELSE IF MagLess(a.mag, b.mag) THEN MkDbl(b.neg, RoundMag(MagSub(b.mag, a.mag), FALSE))
    ELSE MkDbl(a.neg, RoundMag(MagSub(a.mag, b.mag), FALSE))

\* x / y (Python's true division) for integers x, y with y > 0
DblDiv(x, y) ==
    LET rem[j \in 0..FracLimbs] ==
            IF j = 0 THEN Abs(x) % y ELSE (Base * rem[j - 1]) % y
        q == [j \in 1..NLimbs |->
                 IF j <= IntLimbs
                 THEN ((Abs(x) \div y) \div Pow2(LimbBits * (IntLimbs - j))) % Base
                 ELSE (Base * rem[j - IntLimbs - 1]) \div y]
    IN  MkDbl(x < 0, RoundMag(q, rem[FracLimbs] # 0))

\* a < b
DblLess(a, b) ==
    IF a.neg /\ ~b.neg THEN TRUE
    ELSE IF ~a.neg /\ b.neg THEN FALSE
    ELSE IF a.neg THEN MagLess(b.mag, a.mag)
    ELSE MagLess(a.mag, b.mag)

\* ------------------------------------------------------- the environment
\* URLs of a run.  The actor video and a pool of supplementary assets of
\* every media kind the code distinguishes by extension.

ActorUrl == "actor.mp4"
AssetPool ==
    <<"a0.jpg", "a1.png", "a2.mp4", "a3.mp3", "a4.mov", "a5.bin", "a6.gif", "a7.webm",
      "a8.jpeg">>

\* assets[i] of a run with n assets (Python indices 0..n-1)
AssetAt(i) == AssetPool[i + 1]
Urls(n) == {ActorUrl} \cup {AssetAt(i) : i \in 0..(n - 1)}

\* asset_url.split('.')[-1].lower()
FileExt(url) ==
    CASE url \in {"a0.jpg"} -> "jpg"
      [] url \in {"a8.jpeg"} -> "jpeg"
      [] url \in {"a1.png"} -> "png"
      [] url \in {"a6.gif"} -> "gif"
      [] url \in {"a2.mp4", "actor.mp4"} -> "mp4"
      [] url \in {"a4.mov"} -> "mov"
      [] url \in {"a7.webm"} -> "webm"
      [] url \in {"a3.mp3"} -> "mp3"
      [] OTHER -> "bin"

\* what Image.open(...).size / cv2's CAP_PROP_FRAME_WIDTH, _HEIGHT report for
\* the complete file behind a URL (a4.mov is a video cv2 cannot read: 0 x 0)
MediaSize(url) ==
    CASE url = "a0.jpg" -> <<1000, 500>>
      [] url = "a1.png" -> <<500, 1000>>
      [] url = "a6.gif" -> <<640, 640>>
      [] url = "a2.mp4" -> <<1920, 1080>>
      [] url = "actor.mp4" -> <<720, 1280>>
      [] url = "a7.webm" -> <<1080, 1920>>
      [] url = "a8.jpeg" -> <<1064, 880>>
      [] OTHER -> <<0, 0>>

\* what one call into the network and the file system meets: the GET succeeds,
\* fails before the cache file is opened (connection, HTTP status), or breaks
\* while the body is written; and whether the image file can be decoded
NetOutcomes == {"ok", "error", "interrupted"}
ProbeOutcomes == {"ok", "raises"}
Outcomes == [net : NetOutcomes, probe : ProbeOutcomes]
AllOk == [net |-> "ok", probe |-> "ok"]

ImageExts == {"jpg", "jpeg", "png", "gif"}
VideoExts == {"mp4", "mov", "avi", "webm"}
AudioExts == {"mp3", "wav", "aac"}

\* ------------------------------------------------------- download_and_cache
\* cache maps a URL to the state of its cache file: "absent", "partial" (the
\* file was opened and the download broke) or "complete".  The result is the
\* local path (the URL stands for it) or None, the cache afterwards and the
\* number of GET requests issued.
download_and_cache(cache, url, o) ==
    IF cache[url] # "absent"
    THEN [path |-> url, cache |-> cache, gets |-> 0]
    ELSE CASE o.net = "ok" ->
                [path |-> url, cache |-> [cache EXCEPT ![url] = "complete"], gets |-> 1]
           [] o.net = "error" ->
                [path |-> None, cache |-> cache, gets |-> 1]
           [] o.net = "interrupted" ->
                [path |-> None, cache |-> [cache EXCEPT ![url] = "partial"], gets |-> 1]

\* ---------------------------------------------------- get_position_and_scale

Placement(container_center, z_index, scale, rotation, width, height) ==
    [position |-> [x |-> container_center[1], y |-> container_center[2], z |-> z_index],
     transform |-> [scale |-> [x |-> scale, y |-> scale], rotation |-> rotation],
     size |-> [width |-> width, height |-> height]]

\* a slip in lines 151-154: the fallback takes the container's size
FallbackPlacementContainer(container_center, z_index, rotation) ==
    Placement(container_center, z_index, FromInt(1), rotation,
              upper_container_dimensions[1], upper_container_dimensions[2])

\* the except branch, lines 136-155
FallbackPlacement(container_center, z_index, rotation) ==
    Placement(container_center, z_index, FromInt(1), rotation, frame_width, frame_height)

\* width, height of lines 82-102 for a file that was opened
ProbeDimensions(cache, url) ==
    LET ext == FileExt(url)
        real == MediaSize(url)
    IN  IF ext \in ImageExts THEN real
        ELSE IF ext \in VideoExts
             THEN IF cache[url] = "partial" \/ real[1] = 0 \/ real[2] = 0
                  THEN <<frame_width, frame_height>>
                  ELSE real
        ELSE IF ext \in AudioExts THEN <<100, 100>>
        ELSE <<frame_width, frame_height>>

\* a slip in line 116: width > height
FitScaleStrict(width, height, fit_dimension, is_full_frame) ==
    LET container_dims == IF is_full_frame THEN full_frame_container_dimensions
                          ELSE upper_container_dimensions
    IN  IF fit_dimension = "width" THEN DblDiv(container_dims[1], width)
        ELSE IF fit_dimension = "height" THEN DblDiv(container_dims[2], height)
        ELSE IF width > height THEN DblDiv(container_dims[1], width)
        ELSE DblDiv(container_dims[2], height)

\* lines 104-116
FitScale(width, height, fit_dimension, is_full_frame) ==
    LET container_dims == IF is_full_frame THEN full_frame_container_dimensions
                          ELSE upper_container_dimensions
    IN  IF fit_dimension = "width" THEN DblDiv(container_dims[1], width)
        ELSE IF fit_dimension = "height" THEN DblDiv(container_dims[2], height)
        ELSE IF width >= height THEN DblDiv(container_dims[1], width)
        ELSE DblDiv(container_dims[2], height)

\* FitScale tabulated over the sizes the probe can report, so that each
\* division is evaluated once
ProbedSizes ==
    {MediaSize(AssetPool[i]) : i \in 1..Len(AssetPool)}
        \cup {MediaSize(ActorUrl), <<frame_width, frame_height>>, <<100, 100>>}
FitScaleTable ==
    [d \in {s \in ProbedSizes : s[1] > 0 /\ s[2] > 0},
     f \in {"width", "height", "auto"}, b \in BOOLEAN |-> FitScale(d[1], d[2], f, b)]

\* does the try block raise: no local path, or the image cannot be opened
ResolutionFails(dl, url, o) ==
    \/ dl.path = None
    \/ FileExt(url) \in ImageExts /\ o.probe = "raises"

\* the placement returned, the cache afterwards and the GETs issued
get_position_and_scale(cache, o, container_center, asset_url, z_index, fit_dimension, rotation, is_full_frame) ==
    LET dl == download_and_cache(cache, asset_url, o)
        dims == ProbeDimensions(dl.cache, asset_url)
    IN  [placement |->
            IF ResolutionFails(dl, asset_url, o)
            THEN FallbackPlacement(container_center, z_index, rotation)
            ELSE Placement(container_center, z_index,
                           FitScaleTable[dims, fit_dimension, is_full_frame],
                           rotation, dims[1], dims[2]),
         cache |-> dl.cache,
         gets |-> dl.gets]

\* the environment faults one call with outcome o consumes
FaultsOf(cache, url, o) ==
    (IF cache[url] = "absent" /\ o.net # "ok" THEN 1 ELSE 0)
    + (IF o.probe = "raises" THEN 1 ELSE 0)

\* an outcome that differs from AllOk only where the call can see it
Relevant(cache, url, o) ==
    /\ cache[url] # "absent" => o.net = "ok"
    /\ o.probe = "raises" =>
          /\ FileExt(url) \in ImageExts
          /\ cache[url] # "absent" \/ o.net = "ok"


\* ------------------------------------------------------------------ state

VARIABLES
    pc,                 \* where the run is
    assets,             \* argument: the supplementary asset URLs
    total_duration,     \* argument: the total duration in ms
    captions_clip,      \* argument: the caption block, or None
    api_key,            \* is VIDEOAIDITOR_API_KEY set
    fault_budget,       \* environment: the faults this run may meet
    faults,             \* environment: faults met so far
    cache,              \* the cache directory: URL -> state of its file
    downloads,          \* asset GET requests issued so far
    posts,              \* render submissions (POST) issued so far
    queries,            \* status queries (GET renders/id) issued so far
    sleeps,             \* time.sleep(60) calls so far
    cache_i,            \* create_video_json: index of the caching loop
    AA,                 \* create_video_json: number of AA screens
    AD,                 \* create_video_json: number of AD screens
    duration_of_asset_screens,
    clips,
    current_time,
    asset_index,
    remaining_aa,
    remaining_ad,
    video_json,         \* create_and_render_video: the document returned
    render_id,
    attempt,            \* monitor_render_progress: attempts used
    result,             \* what create_and_render_video returned
    exc,                \* the exception that escaped the run, or None
    stdout,             \* the last line printed
    calls,              \* calls made directly to the two helper functions
    last_call           \* the last such call: its arguments and what it returned

args == <<assets, total_duration, captions_clip, api_key>>
env == <<faults, cache, downloads>>
unit == <<calls, last_call>>
world == <<args, fault_budget, unit>>
locals == <<cache_i, AA, AD, duration_of_asset_screens, clips, current_time,
            asset_index, remaining_aa, remaining_ad>>
client == <<posts, queries, sleeps, render_id, attempt>>
vars == <<pc, world, env, locals, client, video_json, result, exc, stdout>>

n == Len(assets)

\* the inputs of the runs checked
Durations == {7000, 10000, 10001, 30000}
CaptionBlock ==
    [id |-> "caption-1", type |-> "caption", name |-> "Caption",
     timeFrame |-> [start |-> FromInt(0), end |-> FromInt(1000)],
     position |-> [x |-> 540, y |-> 1600, z |-> 3]]
\* the dict {}: a block without a single key
EmptyBlock == [empty |-> TRUE]
Captions == {NoneRec, EmptyBlock, CaptionBlock}

\* a call of the entry point with a fresh cache directory (line 31)
Start(budget) ==
    /\ pc = "cache_actor"
    /\ fault_budget = budget
    /\ \E k \in 0..MaxN : assets = SubSeq(AssetPool, 1, k)
    /\ total_duration \in Durations
    /\ captions_clip \in Captions
    /\ api_key \in BOOLEAN
    /\ faults = 0
    /\ cache = [u \in Urls(n) |-> "absent"]
    /\ downloads = 0 /\ posts = 0 /\ queries = 0 /\ sleeps = 0
    /\ cache_i = 0 /\ AA = 0 /\ AD = 0
    /\ duration_of_asset_screens = FromInt(0)
    /\ clips = <<>>
    /\ current_time = FromInt(0)
    /\ asset_index = 0 /\ remaining_aa = 0 /\ remaining_ad = 0
    /\ video_json = NoneRec
    /\ render_id = None
    /\ attempt = 0
    /\ result = None
    /\ exc = None
    /\ stdout = <<>>
    /\ calls = 0
    /\ last_call = NoneRec

\* a run of create_and_render_video
Init == Start(MaxFaults)

\* a run of create_video_json alone: it never reads the key
InitSynth == Start(MaxSynthFaults) /\ api_key = FALSE

\* the outcomes the environment may give a call on url
AllowedIn(c, f, url, o) ==
    /\ Relevant(c, url, o)
    /\ f + FaultsOf(c, url, o) <= fault_budget
Allowed(url, o) == AllowedIn(cache, faults, url, o)

\* ------------------------------------------------------- create_video_json

\* lines 166-167
CacheActor ==
    /\ pc = "cache_actor"
    /\ \E o \in Outcomes :
          /\ Allowed(ActorUrl, o) /\ o.probe = "ok"
          /\ LET dl == download_and_cache(cache, ActorUrl, o)
             IN  /\ cache' = dl.cache
                 /\ downloads' = downloads + dl.gets
                 /\ faults' = faults + FaultsOf(cache, ActorUrl, o)
    /\ pc' = "cache_assets"
    /\ stdout' = <<"Caching assets...">>
    /\ UNCHANGED <<world, locals, client, video_json, result, exc>>

\* lines 170-171, one iteration
CacheAsset ==
    /\ pc = "cache_assets"
    /\ cache_i < n
    /\ \E o \in Outcomes :
          /\ Allowed(AssetAt(cache_i), o) /\ o.probe = "ok"
          /\ LET dl == download_and_cache(cache, AssetAt(cache_i), o)
             IN  /\ cache' = dl.cache
                 /\ downloads' = downloads + dl.gets
                 /\ faults' = faults + FaultsOf(cache, AssetAt(cache_i), o)
    /\ cache_i' = cache_i + 1
    /\ UNCHANGED <<pc, world, AA, AD, duration_of_asset_screens, clips, current_time,
                   asset_index, remaining_aa, remaining_ad, client, video_json,
                   result, exc, stdout>>

\* a slip in lines 175-176: AD and AA exchanged
ScreenCountsSwapped(len) ==
    LET P == len \div 3
    IN  [AD |-> P, AA |-> len - 2 * P, no_of_screens |-> P + (len - 2 * P)]

\* a slip in line 175: AD = n - P
ScreenCountsOneP(len) ==
    LET P == len \div 3
    IN  [AD |-> len - P, AA |-> P, no_of_screens |-> P + (len - P)]

\* lines 173-177
ScreenCounts(len) ==
    LET P == len \div 3
    IN  [AD |-> len - 2 * P, AA |-> P, no_of_screens |-> P + (len - 2 * P)]

\* lines 173-180
ComputeCounts ==
    /\ pc = "cache_assets"
    /\ cache_i = n
    /\ LET c == ScreenCounts(n)
       IN  /\ AA' = c.AA
           /\ AD' = c.AD
           /\ IF c.no_of_screens = 0
              THEN /\ exc' = "ZeroDivisionError"
                   /\ pc' = "raised"
                   /\ UNCHANGED <<duration_of_asset_screens, clips>>
              ELSE /\ duration_of_asset_screens' =
                          DblDiv(total_duration - 2 * only_actor_time, c.no_of_screens)
                   /\ clips' = <<>>
                   /\ pc' = "opening"
                   /\ UNCHANGED exc
    /\ UNCHANGED <<world, env, cache_i, current_time, asset_index, remaining_aa,
                   remaining_ad, client, video_json, result, stdout>>

\* a clip descriptor; id is the position of the uuid4() call in the run
Clip(id, type, source, timeFrame, pl) ==
    [id |-> id, type |-> type, source |-> source, timeFrame |-> timeFrame,
     position |-> pl.position, volume |-> 1, transform |-> pl.transform,
     size |-> pl.size]

\* lines 242, 260, 282
ClipType(url) == IF FileExt(url) \in VideoExts THEN "video" ELSE "image"

\* lines 183-205
OpeningClip ==
    /\ pc = "opening"
    /\ \E o \in Outcomes :
          /\ Allowed(ActorUrl, o)
          /\ LET actor_start == get_position_and_scale(cache, o, frame_center, ActorUrl,
                                                       0, "height", 0, TRUE)
             IN  /\ clips' = Append(clips,
                        Clip(Len(clips) + 1, "video", ActorUrl,
                             [start |-> FromInt(0), end |-> FromInt(only_actor_time),
                              offset |-> FromInt(0)],
                             actor_start.placement))
                 /\ cache' = actor_start.cache
                 /\ downloads' = downloads + actor_start.gets
                 /\ faults' = faults + FaultsOf(cache, ActorUrl, o)
    /\ current_time' = FromInt(only_actor_time)
    /\ asset_index' = 0
    /\ remaining_aa' = AA
    /\ remaining_ad' = AD
    /\ pc' = "loop"
    /\ UNCHANGED <<world, cache_i, AA, AD, duration_of_asset_screens, client,
                   video_json, result, exc, stdout>>


\* the timeFrame of a middle screen, lines 216-219, 245-248, 263-266, 285-288
ScreenEnd(t, w) == DblAdd(t, w)
ScreenFrame == [start |-> current_time,
                end |-> ScreenEnd(current_time, duration_of_asset_screens)]

\* a slip in lines 273, 315: current_time is not advanced
AdvanceStuck(t, w) == t

\* current_time += duration_of_asset_screens, lines 273, 315
Advance(t, w) == DblAdd(t, w)

\* lines 211-236
BackgroundClip(id, frame) ==
    [id |-> id, type |-> "image", source |-> "background.jpg",
     timeFrame |-> frame,
     position |-> [x |-> frame_width \div 2, y |-> frame_height \div 2, z |-> 1],
     transform |-> [scale |-> [x |-> FromInt(1), y |-> FromInt(1)], rotation |-> 0],
     size |-> [width |-> frame_width, height |-> frame_height]]

\* lines 209-274: the AA block of one round of the while loop
AAScreen ==
    /\ pc = "loop"
    /\ remaining_aa > 0
    /\ IF asset_index + 1 >= n
       THEN /\ exc' = "IndexError"
            /\ pc' = "raised"
            /\ UNCHANGED <<env, clips, current_time, asset_index, remaining_aa>>
       ELSE /\ LET url1 == AssetAt(asset_index)
                    url2 == AssetAt(asset_index + 1)
                    frame == ScreenFrame
                IN  \E o1 \in Outcomes :
                      /\ Allowed(url1, o1)
                      /\ LET upper_asset == get_position_and_scale(cache, o1,
                                                 upper_container_center, url1, 2, "auto", 0, FALSE)
                             f1 == faults + FaultsOf(cache, url1, o1)
                         IN  \E o2 \in Outcomes :
                               /\ AllowedIn(upper_asset.cache, f1, url2, o2)
                               /\ LET lower_asset == get_position_and_scale(upper_asset.cache, o2,
                                                          lower_container_center, url2, 2,
                                                          "auto", 0, FALSE)
                                  IN  /\ clips' = clips \o
                                           <<BackgroundClip(Len(clips) + 1, frame),
                                             Clip(Len(clips) + 2, ClipType(url1), url1, frame,
                                                  upper_asset.placement),
                                             Clip(Len(clips) + 3, ClipType(url2), url2, frame,
                                                  lower_asset.placement)>>
                                      /\ cache' = lower_asset.cache
                                      /\ downloads' = downloads + upper_asset.gets
                                                                + lower_asset.gets
                                      /\ faults' = f1 + FaultsOf(upper_asset.cache, url2, o2)
            /\ asset_index' = asset_index + 2
            /\ current_time' = Advance(current_time, duration_of_asset_screens)
            /\ remaining_aa' = remaining_aa - 1
            /\ pc' = IF remaining_ad > 0 THEN "loop_ad" ELSE "loop"
            /\ UNCHANGED exc
    /\ UNCHANGED <<world, cache_i, AA, AD, duration_of_asset_screens, remaining_ad,
                   client, video_json, result, stdout>>

\* max(0, only_actor_time - 0.1), line 306
ActorOffset ==
    LET x == DblAdd(FromInt(only_actor_time), DblDiv(-1, 10))
    IN  IF DblLess(FromInt(0), x) THEN x ELSE FromInt(0)

\* lines 298-312
ContinuousActorClip(id, pl) ==
    Clip(id, "video", ActorUrl,
         [start |-> FromInt(only_actor_time),
          end |-> FromInt(total_duration - only_actor_time),
          offset |-> ActorOffset],
         pl)

\* a slip in line 296: the actor clip is added in every AD screen
IsFirstADAlways(rem_ad, ad) == rem_ad <= ad

\* line 296
IsFirstAD(rem_ad, ad) == rem_ad = ad

\* lines 277-316: the AD block of one round of the while loop
ADScreen ==
    /\ \/ pc = "loop_ad"
       \/ pc = "loop" /\ remaining_aa = 0
    /\ remaining_ad > 0
    /\ IF asset_index >= n
       THEN /\ exc' = "IndexError"
            /\ pc' = "raised"
            /\ UNCHANGED <<env, clips, current_time, asset_index, remaining_ad>>
       ELSE /\ LET url1 == AssetAt(asset_index)
                    frame == ScreenFrame
                IN  \E o1 \in Outcomes :
                      /\ Allowed(url1, o1)
                      /\ LET upper_asset == get_position_and_scale(cache, o1,
                                                 upper_container_center, url1, 2, "auto", 0, FALSE)
                             f1 == faults + FaultsOf(cache, url1, o1)
                             asset_clip == Clip(Len(clips) + 1, ClipType(url1), url1, frame,
                                                upper_asset.placement)
                         IN  IF IsFirstAD(remaining_ad, AD)
                             THEN \E o2 \in Outcomes :
                                    /\ AllowedIn(upper_asset.cache, f1, ActorUrl, o2)
                                    /\ LET actor_clip == get_position_and_scale(
                                                upper_asset.cache, o2, lower_container_center,
                                                ActorUrl, 0, "auto", 0, FALSE)
                                       IN  /\ clips' = clips \o
                                                <<asset_clip,
                                                  ContinuousActorClip(Len(clips) + 2,
                                                                      actor_clip.placement)>>
                                           /\ cache' = actor_clip.cache
                                           /\ downloads' = downloads + upper_asset.gets
                                                                     + actor_clip.gets
                                           /\ faults' = f1 + FaultsOf(upper_asset.cache,
                                                                      ActorUrl, o2)
                             ELSE /\ clips' = Append(clips, asset_clip)
                                  /\ cache' = upper_asset.cache
                                  /\ downloads' = downloads + upper_asset.gets
                                  /\ faults' = f1
            /\ asset_index' = asset_index + 1
            /\ current_time' = Advance(current_time, duration_of_asset_screens)
            /\ remaining_ad' = remaining_ad - 1
            /\ pc' = "loop"
            /\ UNCHANGED exc
    /\ UNCHANGED <<world, cache_i, AA, AD, duration_of_asset_screens, remaining_aa,
                   client, video_json, result, stdout>>

\* lines 340-352
Document(cl) ==
    [metadata |-> [backgroundColor |-> "#000000", duration |-> total_duration,
                   fps |-> 25,
                   canvas |-> [width |-> frame_width, height |-> frame_height],
                   name |-> "Reels AI Template"],
     clips |-> cl]

\* bool(x) for None and for a dict: None and {} are false
Truthy(x) == x # NoneRec /\ x # EmptyBlock

\* a slip in line 337: the caption goes in front
WithCaptionFirst(cl, cap) == IF Truthy(cap) THEN <<cap>> \o cl ELSE cl

\* lines 337-338
WithCaption(cl, cap) == IF Truthy(cap) THEN Append(cl, cap) ELSE cl

\* lines 318-358: the while loop has ended; closing clip, caption, return
ClosingClip ==
    /\ pc = "loop"
    /\ remaining_aa = 0
    /\ remaining_ad = 0
    /\ \E o \in Outcomes :
          /\ Allowed(ActorUrl, o)
          /\ LET actor_end == get_position_and_scale(cache, o, frame_center, ActorUrl,
                                                     0, "height", 0, TRUE)
                 closing == Clip(Len(clips) + 1, "video", ActorUrl,
                                 [start |-> FromInt(total_duration - only_actor_time),
                                  end |-> FromInt(total_duration),
                                  offset |-> FromInt(total_duration - only_actor_time)],
                                 actor_end.placement)
             IN  /\ clips' = WithCaption(Append(clips, closing), captions_clip)
                 /\ cache' = actor_end.cache
                 /\ downloads' = downloads + actor_end.gets
                 /\ faults' = faults + FaultsOf(cache, ActorUrl, o)
    /\ video_json' = Document(clips')
    /\ pc' = "render"
    /\ UNCHANGED <<world, cache_i, AA, AD, duration_of_asset_screens, current_time,
                   asset_index, remaining_aa, remaining_ad, client, result, exc, stdout>>


\* ------------------------------------------------------------ render_video
\* what the render service answers a submission with: a 2xx response whose
\* body holds data._id, a 2xx response without it, or a transport / HTTP error
PostResponses ==
    {[kind |-> "ok", id |-> "render-1"],
     [kind |-> "no_id", id |-> None],
     [kind |-> "request_exception", id |-> None]}

\* a slip in lines 402-404: the except branch hands back a placeholder id
SubmitOutcomePlaceholderId(resp) ==
    CASE resp.kind = "ok" ->
            [returns |-> resp.id, raises |-> None,
             prints |-> <<"Render initiated with ID", resp.id>>]
      [] resp.kind = "no_id" ->
            [returns |-> None, raises |-> "KeyError", prints |-> stdout]
      [] resp.kind = "request_exception" ->
            [returns |-> "pending", raises |-> None, prints |-> <<"Error initiating render">>]

\* lines 390-404: what render_video does with the response
SubmitOutcome(resp) ==
    CASE resp.kind = "ok" ->
            [returns |-> resp.id, raises |-> None,
             prints |-> <<"Render initiated with ID", resp.id>>]
      [] resp.kind = "no_id" ->
            [returns |-> None, raises |-> "KeyError", prints |-> stdout]
      [] resp.kind = "request_exception" ->
            [returns |-> None, raises |-> None, prints |-> <<"Error initiating render">>]

\* lines 370-373: is the submission refused for want of the key
KeyMissing(key) == ~key

\* lines 473-475 with render_video, lines 360-404, and the entry of
\* monitor_render_progress, lines 417-426
RenderVideo ==
    /\ pc = "render"
    /\ IF KeyMissing(api_key)
       THEN /\ stdout' = <<"Error: VIDEOAIDITOR_API_KEY environment variable not set">>
            /\ result' = None
            /\ pc' = "done"
            /\ UNCHANGED <<client, exc>>
       ELSE \E resp \in PostResponses :
               LET out == SubmitOutcome(resp)
               IN  /\ posts' = posts + 1
                   /\ stdout' = out.prints
                   /\ exc' = out.raises
                   /\ render_id' = out.returns
                   /\ attempt' = 0
                   /\ result' = None
                   /\ pc' = IF out.raises # None THEN "raised"
                            ELSE IF out.returns = None THEN "done"
                            ELSE "poll"
                   /\ UNCHANGED <<queries, sleeps>>
    /\ UNCHANGED <<world, env, locals, video_json>>

\* -------------------------------------------------- monitor_render_progress
\* what the render service answers a status query with
StatusResponses ==
    {[kind |-> "ok", status |-> "processing", outputUrl |-> None, error |-> None],
     [kind |-> "ok", status |-> "completed", outputUrl |-> "out.mp4", error |-> None],
     [kind |-> "ok", status |-> "failed", outputUrl |-> None, error |-> "bad input"],
     [kind |-> "request_exception", status |-> None, outputUrl |-> None, error |-> None]}

\* lines 435-456: what one round of the loop does with the response
PollOutcome(resp) ==
    IF resp.kind = "request_exception"
    THEN [ends |-> TRUE, returns |-> None, prints |-> <<"Error checking render status">>]
    ELSE IF resp.status = "completed"
    THEN [ends |-> TRUE, returns |-> resp.outputUrl, prints |-> <<"Output URL", resp.outputUrl>>]
    ELSE IF resp.status = "failed"
    THEN [ends |-> TRUE, returns |-> None, prints |-> <<"Rendering failed", resp.error>>]
    ELSE [ends |-> FALSE, returns |-> None, prints |-> <<"Rendering in progress", resp.status>>]

\* line 427
MayAttempt(a) == a < max_attempts

\* lines 427-456: one round of the while loop
Poll ==
    /\ pc = "poll"
    /\ MayAttempt(attempt)
    /\ \E resp \in StatusResponses :
          LET out == PollOutcome(resp)
          IN  /\ queries' = queries + 1
              /\ stdout' = out.prints
              /\ result' = out.returns
              /\ IF out.ends
                 THEN /\ pc' = "done"
                      /\ UNCHANGED <<sleeps, attempt>>
                 ELSE /\ sleeps' = sleeps + 1
                      /\ attempt' = attempt + 1
                      /\ pc' = "poll"
    /\ UNCHANGED <<world, env, locals, posts, render_id, video_json, exc>>

\* lines 458-459: the attempts are used up
PollTimeout ==
    /\ pc = "poll"
    /\ ~MayAttempt(attempt)
    /\ stdout' = <<"Timeout: Maximum attempts reached">>
    /\ result' = None
    /\ pc' = "done"
    /\ UNCHANGED <<world, env, locals, client, video_json, exc>>

\* -------------------------------------------------------- specifications

Next ==
    \/ CacheActor
    \/ CacheAsset
    \/ ComputeCounts
    \/ OpeningClip
    \/ AAScreen
    \/ ADScreen
    \/ ClosingClip
    \/ RenderVideo
    \/ Poll
    \/ PollTimeout

Spec == Init /\ [][Next]_vars

\* create_video_json called on its own: the run ends when it returns
NextSynth ==
    \/ CacheActor
    \/ CacheAsset
    \/ ComputeCounts
    \/ OpeningClip
    \/ AAScreen
    \/ ADScreen
    \/ ClosingClip

SpecSynth == InitSynth /\ [][NextSynth]_vars

\* ------------------------------------------- the helper functions on their own
\* download_and_cache and get_position_and_scale are module-level functions: a
\* caller may call them directly, any number of times, on a cache directory
\* that keeps what earlier calls left in it.

MaxCalls == 2
MaxCallFaults == 2

\* the arguments get_position_and_scale is called with
\* (container_center, z_index) as in lines 183, 239, 257 and 297
Containers ==
    {<<frame_center, 0>>, <<upper_container_center, 2>>,
     <<lower_container_center, 2>>, <<lower_container_center, 0>>}
FitDimensions == {"width", "height", "auto"}

\* a process that has imported the module, with a fresh cache directory, and
\* the URL it is going to ask for besides the actor video
InitCalls ==
    /\ pc = "idle"
    /\ fault_budget = MaxCallFaults
    /\ \E i \in 1..Len(AssetPool) : assets = <<AssetPool[i]>>
    /\ total_duration = 30000
    /\ captions_clip = NoneRec
    /\ api_key = FALSE
    /\ faults = 0
    /\ cache = [u \in {ActorUrl, assets[1]} |-> "absent"]
    /\ downloads = 0 /\ posts = 0 /\ queries = 0 /\ sleeps = 0
    /\ cache_i = 0 /\ AA = 0 /\ AD = 0
    /\ duration_of_asset_screens = FromInt(0)
    /\ clips = <<>>
    /\ current_time = FromInt(0)
    /\ asset_index = 0 /\ remaining_aa = 0 /\ remaining_ad = 0
    /\ video_json = NoneRec
    /\ render_id = None
    /\ attempt = 0
    /\ result = None
    /\ exc = None
    /\ stdout = <<>>
    /\ calls = 0
    /\ last_call = NoneRec

\* download_and_cache(url), lines 39-59
CallDownload ==
    /\ pc = "idle"
    /\ calls < MaxCalls
    /\ \E url \in DOMAIN cache, o \in Outcomes :
          /\ Allowed(url, o) /\ o.probe = "ok"
          /\ LET dl == download_and_cache(cache, url, o)
             IN  /\ cache' = dl.cache
                 /\ downloads' = downloads + dl.gets
                 /\ faults' = faults + FaultsOf(cache, url, o)
                 /\ last_call' = [fn |-> "download_and_cache", url |-> url,
                             before |-> cache[url], path |-> dl.path, gets |-> dl.gets]
    /\ calls' = calls + 1
    /\ UNCHANGED <<pc, args, fault_budget, locals, client, video_json, result, exc, stdout>>

\* get_position_and_scale(container_center, asset_url, z_index, fit_dimension,
\* rotation, is_full_frame), lines 75-155
CallPlacement ==
    /\ pc = "idle"
    /\ calls < MaxCalls
    /\ \E url \in DOMAIN cache, o \in Outcomes, c \in Containers,
          fit_dimension \in FitDimensions, is_full_frame \in BOOLEAN :
          /\ Allowed(url, o)
          /\ LET container_center == c[1]
                 z_index == c[2]
                 r == get_position_and_scale(cache, o, container_center, url, z_index,
                                             fit_dimension, 0, is_full_frame)
             IN  /\ cache' = r.cache
                 /\ downloads' = downloads + r.gets
                 /\ faults' = faults + FaultsOf(cache, url, o)
                 /\ last_call' = [fn |-> "get_position_and_scale", url |-> url,
                             before |-> cache[url],
                             container_center |-> container_center, z_index |-> z_index,
                             fit_dimension |-> fit_dimension, is_full_frame |-> is_full_frame,
                             raised |-> ResolutionFails(download_and_cache(cache, url, o), url, o),
                             placement |-> r.placement, gets |-> r.gets]
    /\ calls' = calls + 1
    /\ UNCHANGED <<pc, args, fault_budget, locals, client, video_json, result, exc, stdout>>

NextCalls ==
    \/ CallDownload
    \/ CallPlacement

SpecCalls == InitCalls /\ [][NextCalls]_vars


\* ------------------------------------------------------------ properties

\* create_video_json has returned its document
Returned == pc \in {"render", "poll", "done"} \/ (pc = "raised" /\ posts > 0)
\* the middle loop is running or has ended
InOrAfterLoop == pc \in {"loop", "loop_ad"} \/ Returned

IsCaption(c) == c.type = "caption"
IsActorClip(c) == ~IsCaption(c) /\ c.source = ActorUrl
IsBackground(c) == ~IsCaption(c) /\ c.source = "background.jpg"
IsAssetClip(c) == ~IsCaption(c) /\ c.source \notin {ActorUrl, "background.jpg"}

\* the sources of the supplementary-asset clips, in emission order
AssetSources(cl) ==
    LET a == SelectSeq(cl, IsAssetClip)
    IN  [i \in 1..Len(a) |-> a[i].source]

\* C1: for n >= 1 the counts are P = floor(n/3), AA = P, AD = n - 2P with
\* 2*AA + AD = n; the loop never reads an index >= n (no IndexError); the
\* asset clips emitted so far are assets[0..asset_index-1] in that order, each
\* once; and asset_index = n once the loop has ended.
C1_AssetsConsumedOnce ==
    /\ exc # "IndexError"
    /\ InOrAfterLoop =>
          /\ n >= 1
          /\ AA = n \div 3
          /\ AD = n - 2 * (n \div 3)
          /\ 2 * AA + AD = n
          /\ asset_index <= n
          /\ AssetSources(clips) = [i \in 1..asset_index |-> AssetAt(i - 1)]
    /\ Returned => asset_index = n

C1_Witness == pc = "render" /\ n >= 5 /\ asset_index = n /\ AA >= 1

\* C3 (as claimed): with zero supplementary assets the run ends in a
\* ConfigurationError and the division by no_of_screens = 0 is not performed.
C3_ZeroAssetsConfigurationError ==
    n = 0 =>
        /\ exc # "ZeroDivisionError"
        /\ pc \notin {"cache_actor", "cache_assets"} => exc = "ConfigurationError"

\* the continuous actor clips: actor source at the lower container center, z = 0
IsContinuousActor(c) ==
    /\ IsActorClip(c)
    /\ c.position = [x |-> lower_container_center[1], y |-> lower_container_center[2], z |-> 0]

ContinuousActorClips(cl) == SelectSeq(cl, IsContinuousActor)

\* C4: the document holds exactly one continuous actor clip, spanning
\* [5000, D - 5000), however many AD screens there are: none before the first
\* AD screen is emitted, one from then on.
C4_OneContinuousActorClip ==
    /\ pc \in {"loop", "loop_ad"} =>
          Len(ContinuousActorClips(clips)) = IF remaining_ad < AD THEN 1 ELSE 0
    /\ Returned =>
          /\ Len(ContinuousActorClips(video_json.clips)) = 1
          /\ LET c == ContinuousActorClips(video_json.clips)[1]
             IN  /\ c.timeFrame.start = FromInt(only_actor_time)
                 /\ c.timeFrame.end = FromInt(total_duration - only_actor_time)

C4_Witness ==
    /\ pc = "render" /\ AD >= 3
    /\ Len(ContinuousActorClips(video_json.clips)) = 1


\* the clips that begin a middle screen: the background clip of an AA screen,
\* the asset clip of an AD screen
StartsScreen(cl, i) ==
    \/ IsBackground(cl[i])
    \/ /\ IsAssetClip(cl[i])
       /\ ~(i > 1 /\ IsBackground(cl[i - 1]))
       /\ ~(i > 2 /\ IsBackground(cl[i - 2]))

\* the timeFrames of the middle screens, in emission order
ScreenFrames(cl) ==
    LET idx == {i \in 1..Len(cl) : StartsScreen(cl, i)}
        nth(k) == CHOOSE i \in idx : Cardinality({j \in idx : j < i}) = k - 1
    IN  [k \in 1..Cardinality(idx) |-> cl[nth(k)].timeFrame]

\* the three clips of an AA screen share one timeFrame
AAClipsShareFrame(cl) ==
    \A i \in 1..Len(cl) :
        IsBackground(cl[i]) =>
            /\ i + 2 <= Len(cl)
            /\ cl[i + 1].timeFrame = cl[i].timeFrame
            /\ cl[i + 2].timeFrame = cl[i].timeFrame

\* the closing clip: the last clip that is not the caption
ClosingOf(cl) == IF IsCaption(cl[Len(cl)]) THEN cl[Len(cl) - 1] ELSE cl[Len(cl)]

OpeningClosingExact(cl) ==
    /\ cl[1].timeFrame.start = FromInt(0)
    /\ cl[1].timeFrame.end = FromInt(only_actor_time)
    /\ ClosingOf(cl).timeFrame.start = FromInt(total_duration - only_actor_time)
    /\ ClosingOf(cl).timeFrame.end = FromInt(total_duration)

\* m * k for a magnitude m and a small natural k, exactly
MagTimes(m, k) ==
    LET c[j \in 1..(NLimbs + 1)] ==
            IF j > NLimbs THEN 0 ELSE (m[j] * k + c[j + 1]) \div Base
    IN  [j \in 1..NLimbs |-> (m[j] * k + c[j + 1]) % Base]

\* the double x is exactly the rational num / den (den > 0)
IsRational(x, num, den) ==
    /\ MagTimes(x.mag, den) = IntToMag(Abs(num))
    /\ x.neg = (num < 0)

\* screen k (from 0) of S covers exactly [5000 + k*w, 5000 + (k+1)*w), w = (D - 10000)/S
ScreensExact(F) ==
    LET S == Len(F)
        span == total_duration - 2 * only_actor_time
    IN  \A k \in 0..(S - 1) :
            /\ IsRational(F[k + 1].start, only_actor_time * S + k * span, S)
            /\ IsRational(F[k + 1].end, only_actor_time * S + (k + 1) * span, S)

\* C2 (as claimed): in the document create_video_json returns, the opening clip covers [0, 5000), the closing clip
\* [D - 5000, D), and the k-th middle screen covers exactly
\* [5000 + k*w, 5000 + (k+1)*w) with w = (D - 10000)/screenCount, so that the
\* last screen ends at D - 5000.
C2_ExactTiling ==
    pc = "render" =>
        /\ OpeningClosingExact(video_json.clips)
        /\ Len(ScreenFrames(video_json.clips)) = AA + AD
        /\ ScreensExact(ScreenFrames(video_json.clips))

\* C2 (amended): in the document create_video_json returns, the opening clip covers [0, 5000) and the closing clip
\* [D - 5000, D); there are AA + AD middle screens, the first starts at 5000,
\* each is one floating-point addition of w = (D - 10000)/screenCount wide and
\* ends exactly where the next starts; the clips of an AA screen share its
\* timeFrame; and when screenCount divides D - 10000 the k-th screen covers
\* exactly [5000 + k*w, 5000 + (k+1)*w), the last ending at D - 5000.
C2_ContiguousTiling ==
    pc = "render" =>
        LET cl == video_json.clips
            F == ScreenFrames(cl)
            S == Len(F)
            span == total_duration - 2 * only_actor_time
        IN  /\ OpeningClosingExact(cl)
            /\ S = AA + AD
            /\ S >= 1
            /\ F[1].start = FromInt(only_actor_time)
            /\ \A k \in 1..S : F[k].end = DblAdd(F[k].start, DblDiv(span, S))
            /\ \A k \in 1..(S - 1) : F[k + 1].start = F[k].end
            /\ AAClipsShareFrame(cl)
            /\ span % S = 0 =>
                  /\ ScreensExact(F)
                  /\ F[S].end = FromInt(total_duration - only_actor_time)

\* a document whose last screen does not end at D - 5000
C2_Witness ==
    /\ pc = "render"
    /\ AA + AD >= 3
    /\ (total_duration - 2 * only_actor_time) % (AA + AD) # 0
    /\ ScreenFrames(video_json.clips)[AA + AD].end # FromInt(total_duration - only_actor_time)
    /\ ScreenFrames(video_json.clips)[2].start = ScreenFrames(video_json.clips)[1].end


\* C5 (as claimed): every clip of the document create_video_json returns has
\* timeFrame.start < timeFrame.end, also for D <= 10000.
C5_StartBeforeEnd ==
    pc = "render" =>
        \A i \in 1..Len(video_json.clips) :
            DblLess(video_json.clips[i].timeFrame.start, video_json.clips[i].timeFrame.end)

\* what monitor_render_progress printed last tells how it ended
Completed == pc = "done" /\ queries > 0 /\ stdout[1] = "Output URL"
RenderFailed == pc = "done" /\ queries > 0 /\ stdout[1] = "Rendering failed"
TimedOut == pc = "done" /\ queries > 0 /\ stdout[1] = "Timeout: Maximum attempts reached"

\* C6 (as claimed): 'completed' after k non-terminal responses, k < max_attempts,
\* returns that response's outputUrl after exactly k waits; 'failed' returns a
\* failure that carries the server's reason; max_attempts non-terminal
\* responses return a timeout after exactly max_attempts queries.
C6_PollingOutcome ==
    /\ Completed =>
          /\ result = stdout[2]
          /\ sleeps = queries - 1
          /\ sleeps < max_attempts
    /\ RenderFailed => result = stdout[2]
    /\ TimedOut =>
          /\ queries = max_attempts
          /\ sleeps = max_attempts
    /\ queries <= max_attempts

\* C7 (as claimed): the value returned when the attempts are used up differs
\* from the value returned when the service reports 'failed'.
C7_TimeoutDistinctFromFailed ==
    TimedOut =>
        \A resp \in StatusResponses :
            (resp.kind = "ok" /\ resp.status = "failed") => result # PollOutcome(resp).returns

\* C8 (as claimed): with the credential absent, the run makes no network call
\* (no asset GET, no POST, no status query) before it reports the failure.
C8_NoNetworkWithoutKey ==
    KeyMissing(api_key) => downloads = 0 /\ posts = 0 /\ queries = 0

\* C9 (as claimed): after a submission no exception has escaped render_video,
\* and when no render id came back the run has ended with a failure value and
\* without a status query.
C9_MissingIdIsFailure ==
    posts > 0 =>
        /\ exc = None
        /\ render_id = None => pc = "done" /\ result = None /\ queries = 0

\* the calls of get_position_and_scale checked: those of create_video_json
\* and one with a rotation
CallShapes ==
    {<<frame_center, 0, "height", 0, TRUE>>,
     <<upper_container_center, 2, "auto", 0, FALSE>>,
     <<lower_container_center, 2, "auto", 0, FALSE>>,
     <<lower_container_center, 0, "auto", 0, FALSE>>,
     <<upper_container_center, 1, "width", 90, FALSE>>}

\* a failed resolution gives scale 1, the canvas size, the container center,
\* z-index and rotation as passed
FallbackExact ==
    \A url \in Urls(n), o \in Outcomes, c \in CallShapes :
        (/\ Relevant(cache, url, o)
         /\ \/ download_and_cache(cache, url, o).path = None
            \/ FileExt(url) \in ImageExts /\ o.probe = "raises")
        => get_position_and_scale(cache, o, c[1], url, c[2], c[3], c[4], c[5]).placement
             = [position |-> [x |-> c[1][1], y |-> c[1][2], z |-> c[2]],
                transform |-> [scale |-> [x |-> FromInt(1), y |-> FromInt(1)],
                               rotation |-> c[4]],
                size |-> [width |-> 1080, height |-> 1920]]

\* source, start and end of every clip of the document when every asset
\* resolves: the rounds of the middle loop from (rem_aa, rem_ad, idx, t)
RECURSIVE ResolvedRounds(_, _, _, _, _, _)
ResolvedRounds(rem_aa, rem_ad, idx, t, w, ad) ==
    IF rem_aa = 0 /\ rem_ad = 0 THEN <<>>
    ELSE LET t1 == IF rem_aa > 0 THEN DblAdd(t, w) ELSE t
             idx1 == IF rem_aa > 0 THEN idx + 2 ELSE idx
             aa == IF rem_aa > 0
                   THEN <<<<"background.jpg", t, t1>>, <<AssetAt(idx), t, t1>>,
                          <<AssetAt(idx + 1), t, t1>>>>
                   ELSE <<>>
             t2 == IF rem_ad > 0 THEN DblAdd(t1, w) ELSE t1
             adc == IF rem_ad > 0
                    THEN <<<<AssetAt(idx1), t1, t2>>>>
                         \o (IF rem_ad = ad
                             THEN <<<<ActorUrl, FromInt(only_actor_time),
                                      FromInt(total_duration - only_actor_time)>>>>
                             ELSE <<>>)
                    ELSE <<>>
         IN  aa \o adc
             \o ResolvedRounds(IF rem_aa > 0 THEN rem_aa - 1 ELSE 0,
                               IF rem_ad > 0 THEN rem_ad - 1 ELSE 0,
                               IF rem_ad > 0 THEN idx1 + 1 ELSE idx1, t2, w, ad)

ResolvedShape ==
    LET P == n \div 3
        w == DblDiv(total_duration - 2 * only_actor_time, n - P)
    IN  <<<<ActorUrl, FromInt(0), FromInt(only_actor_time)>>>>
        \o ResolvedRounds(P, n - 2 * P, 0, FromInt(only_actor_time), w, n - 2 * P)
        \o <<<<ActorUrl, FromInt(total_duration - only_actor_time), FromInt(total_duration)>>>>
        \o (IF ~Truthy(captions_clip) THEN <<>>
            ELSE <<<<"caption", captions_clip.timeFrame.start, captions_clip.timeFrame.end>>>>)

ShapeOf(cl) ==
    [i \in 1..Len(cl) |->
        <<IF IsCaption(cl[i]) THEN "caption" ELSE cl[i].source,
          cl[i].timeFrame.start, cl[i].timeFrame.end>>]

\* C10: a failed resolution (no local handle, or the probe raises) yields the
\* fallback placement; create_video_json raises nothing for n >= 1 whichever
\* resolutions fail, and the document it returns has the clips, in number,
\* order and timeFrames, of the run in which every asset resolves.
C10_FallbackDoesNotAbort ==
    /\ pc \in {"opening", "loop", "loop_ad"} => FallbackExact
    /\ (n >= 1 /\ posts = 0) => exc = None
    /\ pc = "render" => ShapeOf(video_json.clips) = ResolvedShape

\* a document returned after a failed resolution put an image asset in the
\* fallback placement
C10_Witness ==
    /\ pc = "render"
    /\ faults >= 1
    /\ \E i \in 1..Len(video_json.clips) :
          LET c == video_json.clips[i]
          IN  /\ IsAssetClip(c)
              /\ c.source = "a0.jpg"
              /\ c.size = [width |-> frame_width, height |-> frame_height]
              /\ c.transform.scale.x = FromInt(1)


\* ------------------------------------------------- C11: the fit computation

\* the last direct call was get_position_and_scale / and its try block returned
PlacementCalled == last_call # NoneRec /\ last_call.fn = "get_position_and_scale"
PlacementResolved == PlacementCalled /\ ~last_call.raised

\* x * k in floating point, for a double x and a natural k
DblTimes(x, k) == MkDbl(x.neg, RoundMag(MagTimes(x.mag, k), FALSE))

\* <<container dimension, asset dimension>> that the fit mode of the last call
\* is to match, for the container (W x H) the call selected
FitTarget ==
    LET w == last_call.placement.size.width
        h == last_call.placement.size.height
        dims == IF last_call.is_full_frame THEN <<frame_width, frame_height>>
                ELSE <<frame_width, frame_height \div 2>>
    IN  IF last_call.fit_dimension = "width" \/ (last_call.fit_dimension = "auto" /\ w >= h)
        THEN <<dims[1], w>>
        ELSE <<dims[2], h>>

PositionAsSupplied ==
    last_call.placement.position =
        [x |-> last_call.container_center[1], y |-> last_call.container_center[2], z |-> last_call.z_index]

\* the magnitude of t * 2^-MantBits, the unit roundoff relative to t
RoundoffOf(t) ==
    LET i == IntLimbs * LimbBits + MantBits
    IN  MagTimes([j \in 1..NLimbs |-> IF j = LimbOf(i) THEN WeightOf(i) ELSE 0], t)

\* |x * d - t| <= t * 2^-MantBits, in exact arithmetic: x is t / d rounded once
IsRoundedQuotient(x, t, d) ==
    LET prod == MagTimes(x.mag, d)
        diff == IF MagLess(prod, IntToMag(t)) THEN MagSub(IntToMag(t), prod)
                ELSE MagSub(prod, IntToMag(t))
    IN  ~x.neg /\ ~MagLess(RoundoffOf(t), diff)

\* the odd part of d: t / d is a double when it divides t
OddPart(d) == CHOOSE q \in 1..d : q % 2 = 1 /\ \E k \in 0..LimbBits : q * Pow2(k) = d

\* C11 (as claimed): for every asset of positive width w and height h and every container (W x H),
\* get_position_and_scale returns a uniform scale with scale * w == W for fit
\* mode 'width', scale * h == H for 'height', and for 'auto' the width-based
\* scale when w >= h and the height-based scale otherwise; the position is the
\* container center with z the supplied z-index.
C11_ScaleTimesSizeIsContainer ==
    /\ PlacementCalled => PositionAsSupplied
    /\ PlacementResolved =>
          /\ last_call.placement.size.width > 0 /\ last_call.placement.size.height > 0
          /\ last_call.placement.transform.scale.x = last_call.placement.transform.scale.y
          /\ DblTimes(last_call.placement.transform.scale.x, FitTarget[2]) = FromInt(FitTarget[1])

\* C11 (amended): the scale is uniform and is the double nearest to W / w ('width', and 'auto' when
\* w >= h) or to H / h ('height', and 'auto' when w < h): scale * size differs
\* from the container dimension by at most one rounding error, and equals it
\* exactly whenever the quotient is a double; the position is the container
\* center with z the supplied z-index.
C11_ScaleIsRoundedQuotient ==
    /\ PlacementCalled => PositionAsSupplied
    /\ PlacementResolved =>
          /\ last_call.placement.size.width > 0 /\ last_call.placement.size.height > 0
          /\ last_call.placement.transform.scale.x = last_call.placement.transform.scale.y
          /\ IsRoundedQuotient(last_call.placement.transform.scale.x, FitTarget[1], FitTarget[2])
          /\ FitTarget[1] % OddPart(FitTarget[2]) = 0 =>
                IsRational(last_call.placement.transform.scale.x, FitTarget[1], FitTarget[2])

\* a 1064 x 880 image fitted by width into the 1080-wide container: the scale
\* times the width is not 1080 in floating point
C11_Witness ==
    /\ PlacementResolved
    /\ last_call.url = "a8.jpeg"
    /\ last_call.fit_dimension = "width"
    /\ last_call.placement.size = [width |-> 1064, height |-> 880]
    /\ DblTimes(last_call.placement.transform.scale.x, 1064) # FromInt(frame_width)


\* ------------------------------------------------------- C12: the asset cache

DownloadCalled == last_call # NoneRec /\ last_call.fn = "download_and_cache"

\* the call found the file of a successful fetch: it returns the stored copy
\* and issues no request
StoredCopyReused ==
    DownloadCalled /\ last_call.before = "complete" =>
        last_call.path = last_call.url /\ last_call.gets = 0 /\ cache[last_call.url] = "complete"

\* the call returned a cache hit: the file is the complete result of a fetch
HitIsComplete ==
    DownloadCalled /\ last_call.path # None /\ last_call.gets = 0 => cache[last_call.url] = "complete"

\* C12: across any sequence of download_and_cache calls for one URL, once a fetch
\* has succeeded every later call returns the stored copy without a network
\* request, and a stored copy returned as a cache hit is always the complete
\* result of a successful fetch (a download that broke after the cache file
\* was opened leaves nothing that a later call returns as a local handle).
C12_CacheHitIsCompleteFetch == StoredCopyReused /\ HitIsComplete


\* ------------------------------------------- C13: submission and polling order

\* the ids the render service hands out
IssuedIds == {r.id : r \in {q \in PostResponses : q.kind = "ok"}}

\* create_video_json has returned, and what it returned is the whole timeline
DocumentComplete ==
    /\ video_json # NoneRec
    /\ video_json = Document(clips)
    /\ asset_index = n /\ remaining_aa = 0 /\ remaining_ad = 0
    /\ AssetSources(video_json.clips) = assets
    /\ ClosingOf(video_json.clips).timeFrame.end = FromInt(total_duration)

\* the submission was made and gave no render id
SubmissionFailed == posts > 0 /\ render_id \notin IssuedIds

\* C13: in every run of create_and_render_video the render submission (POST) is
\* issued at most once and only after create_video_json has returned the
\* complete document; a status query is issued only after a submission returned
\* a render id; after a failed submission the run has ended with a failure
\* (None returned or the exception raised), with no second submission and no
\* status query.
C13_SubmitOnceThenPoll ==
    /\ posts <= 1
    /\ posts > 0 => DocumentComplete
    /\ queries > 0 => posts = 1 /\ render_id \in IssuedIds
    /\ pc = "poll" => posts = 1 /\ render_id \in IssuedIds
    /\ SubmissionFailed =>
          /\ pc \in {"done", "raised"}
          /\ queries = 0 /\ sleeps = 0
          /\ result = None

\* a run whose submission met a transport error: it has ended, unpolled
C13_Witness ==
    /\ pc = "done"
    /\ n >= 1
    /\ posts = 1
    /\ render_id = None
    /\ stdout = <<"Error initiating render">>
    /\ queries = 0


\* ------------------------------------------------------ C14: emission order

\* the opening and the closing clip: the actor video over the full frame
IsFullFrameActor(c) ==
    /\ IsActorClip(c)
    /\ c.position = [x |-> frame_center[1], y |-> frame_center[2], z |-> 0]

\* a clip of the middle section
IsMiddleClip(c) == IsBackground(c) \/ IsAssetClip(c) \/ IsContinuousActor(c)

\* a caption block was supplied: captions_clip is neither None nor a dict
\* without keys
CaptionSupplied == captions_clip # NoneRec /\ captions_clip # EmptyBlock

InLoop == pc \in {"loop", "loop_ad"}

\* "AA" or "AD" for each middle screen of a clips list, in emission order
ScreenKinds(cl) ==
    LET idx == {i \in 1..Len(cl) : StartsScreen(cl, i)}
        nth(k) == CHOOSE i \in idx : Cardinality({j \in idx : j < i}) = k - 1
    IN  [k \in 1..Cardinality(idx) |-> IF IsBackground(cl[nth(k)]) THEN "AA" ELSE "AD"]

\* P repetitions of (AA screen, AD screen), then len mod 3 AD-only screens
ExpectedKinds(len) ==
    LET P == len \div 3
    IN  [k \in 1..(2 * P + (len % 3)) |->
            IF k <= 2 * P /\ k % 2 = 1 THEN "AA" ELSE "AD"]

\* the counts, and the counters wherever the loop stands
CountsInvariant ==
    n >= 1 /\ (InLoop \/ pc = "render") =>
        /\ AD - AA = n % 3
        /\ AD >= AA /\ AD >= 1
        /\ ~(remaining_aa > 0 /\ remaining_ad = 0)
        /\ pc = "loop" => AA - remaining_aa = (IF AD - remaining_ad < AA
                                                THEN AD - remaining_ad ELSE AA)
        /\ pc = "loop_ad" => remaining_ad > 0 /\ AA - remaining_aa = AD - remaining_ad + 1
        /\ pc = "render" =>
              /\ remaining_aa = 0 /\ remaining_ad = 0
              /\ ScreenKinds(video_json.clips) = ExpectedKinds(n)

\* a round of the loop ends with its AD screen, which takes one off
\* remaining_ad: the rounds are as many as the AD screens; the loop is left
\* when none remains
RoundStep ==
    /\ InLoop /\ pc' = "loop" => remaining_ad' = remaining_ad - 1
    /\ pc = "loop" /\ pc' = "loop_ad" =>
          remaining_aa' = remaining_aa - 1 /\ remaining_ad' = remaining_ad
    /\ InLoop /\ pc' = "render" => remaining_ad = 0 /\ remaining_aa = 0 /\ pc = "loop"
    /\ pc = "opening" /\ pc' = "loop" => remaining_ad' = AD /\ remaining_aa' = AA

\* C15: for every n >= 1, AD - AA == n mod 3, so AD >= AA and AD >= 1: the middle
\* loop ends after exactly AD rounds (every round takes one AD screen), the
\* state 'remaining_aa > 0 and remaining_ad == 0' is never reached, and the
\* screens emitted are P repetitions of (AA screen, AD screen) followed by
\* n mod 3 AD-only screens.
C15_RoundsFollowPattern == []CountsInvariant /\ [][RoundStep]_vars

\* five assets: one (AA, AD) pair, then two AD-only screens
C15_Witness ==
    /\ pc = "render"
    /\ n = 5
    /\ AA = 1 /\ AD = 3
    /\ ScreenKinds(video_json.clips) = <<"AA", "AD", "AD", "AD">>

====
